---- MODULE Spec2Model ----
(***************************************************************************)
(* GridCARE ETL pipeline (src/main.py): the name resolver                  *)
(* (standardize_city over city_mappings), the site-potential scorer, the   *)
(* cleanup filter, the upsert into power_plants and the run() sequence.    *)
(*                                                                         *)
(* Encoding of values                                                      *)
(*   None / NaN        the empty tuple <<>> (pandas keeps a missing value  *)
(*                     of a column as None or NaN; pd.isna is true of both)*)
(*   a string column   <<s>>, s a TLA+ string ("P1", "CA", "Industrial")   *)
(*   a city name       <<cs>>, cs the tuple of its characters, so that the *)
(*                     empty string << <<>> >> differs from None           *)
(*   a number          the exact fraction <<n, d>>, d > 0                  *)
(***************************************************************************)
EXTENDS Integers, Sequences, FiniteSets, TLC

VARIABLES
    pc,          \* position of the caller inside run() / transform_data()
    conn,        \* self.conn: "None", "open" or "closed"
    matcher,     \* which SequenceMatcher fuzzywuzzy imported in this install
    raw_data,    \* the batch handed to transform_data
    df,          \* the DataFrame, a sequence of rows
    prev_call,   \* the batch and the result of the previous transform_data call (history)
    table,       \* the committed rows of power_plants
    last_loaded, \* per plant_code, the record most recently loaded (history)
    tx,          \* the open transaction of self.conn: statements executed, rows as it sees them
    records_loaded, \* what load_data returned to run()
    run_log      \* the methods run() has called and the one that raised (history)

vars == <<pc, conn, matcher, raw_data, df, prev_call, table, last_loaded,
          tx, records_loaded, run_log>>

None == <<>>
NaN == <<>>
isna(v) == v = <<>>

Max2(x, y) == IF x >= y THEN x ELSE y

(***************************************************************************)
(* Strings as tuples of characters                                         *)
(***************************************************************************)
UpperChars ==
    <<"A", "B", "C", "D", "E", "F", "G", "H", "I", "J", "K", "L", "M",
      "N", "O", "P", "Q", "R", "S", "T", "U", "V", "W", "X", "Y", "Z">>
LowerChars ==
    <<"a", "b", "c", "d", "e", "f", "g", "h", "i", "j", "k", "l", "m",
      "n", "o", "p", "q", "r", "s", "t", "u", "v", "w", "x", "y", "z">>
DigitChars == <<"0", "1", "2", "3", "4", "5", "6", "7", "8", "9">>

SeqRange(s) == {s[i] : i \in 1..Len(s)}

\* \w of the regular expression: letters, digits and the underscore
WordChars == SeqRange(UpperChars) \cup SeqRange(LowerChars) \cup SeqRange(DigitChars) \cup {"_"}

\* StringProcessor.replace_non_letters_non_numbers_with_whitespace
replace_non_letters_non_numbers_with_whitespace(s) ==
    [i \in 1..Len(s) |-> IF s[i] \in WordChars THEN s[i] ELSE " "]

to_lower_char(c) ==
    IF \E k \in 1..Len(UpperChars) : UpperChars[k] = c
    THEN LowerChars[CHOOSE k \in 1..Len(UpperChars) : UpperChars[k] = c]
    ELSE c

\* StringProcessor.to_lower_case
to_lower_case(s) == [i \in 1..Len(s) |-> to_lower_char(s[i])]

\* StringProcessor.strip: leading and trailing whitespace removed
strip(s) ==
    LET keep == {i \in 1..Len(s) : s[i] # " "}
    IN  IF keep = {} THEN <<>>
        ELSE LET lo == CHOOSE i \in keep : \A j \in keep : i <= j
                 hi == CHOOSE i \in keep : \A j \in keep : i >= j
             IN  SubSeq(s, lo, hi)

\* fuzzywuzzy.utils.full_process, the default processor of process.extractOne
full_process(s) ==
    strip(to_lower_case(replace_non_letters_non_numbers_with_whitespace(s)))

(***************************************************************************)
(* fuzz.ratio: 100 * 2*M/T rounded to an integer, M the matched characters *)
(* of SequenceMatcher and T the two lengths added.  fuzzywuzzy takes       *)
(* python-Levenshtein's StringMatcher when it is installed (M is then the  *)
(* longest common subsequence) and difflib's SequenceMatcher otherwise     *)
(* (M is then the Ratcliff/Obershelp matching blocks).                     *)
(***************************************************************************)
Matchers == {"difflib", "levenshtein"}

\* Python 3 round(): to the nearest integer, a tie to the even one (n >= 0, d > 0)
RoundHalfEven(n, d) ==
    LET q == n \div d
        r == n % d
    IN  IF 2 * r < d THEN q
        ELSE IF 2 * r > d THEN q + 1
        ELSE IF q % 2 = 0 THEN q ELSE q + 1

RECURSIVE MatchLen(_, _, _, _, _, _)
\* length of the common run of a[i..ahi] and b[j..bhi] starting at i and j
MatchLen(a, b, i, j, ahi, bhi) ==
    IF i <= ahi /\ j <= bhi /\ a[i] = b[j]
    THEN 1 + MatchLen(a, b, i + 1, j + 1, ahi, bhi)
    ELSE 0

\* difflib find_longest_match without junk: the longest block, of those the one
\* starting earliest in a, of those the one starting earliest in b; <<i, j, k>>
find_longest_match(a, b, alo, ahi, blo, bhi) ==
    LET cand == {<<i, j, MatchLen(a, b, i, j, ahi, bhi)>> : i \in alo..ahi, j \in blo..bhi}
        pos == {c \in cand : c[3] > 0}
    IN  IF pos = {} THEN <<alo, blo, 0>>
        ELSE CHOOSE c \in pos : \A o \in pos :
                \/ c[3] > o[3]
                \/ c[3] = o[3] /\ c[1] < o[1]
                \/ c[3] = o[3] /\ c[1] = o[1] /\ c[2] <= o[2]

RECURSIVE matching_blocks_size(_, _, _, _, _, _)
\* difflib get_matching_blocks: the sizes of the blocks added up
matching_blocks_size(a, b, alo, ahi, blo, bhi) ==
    IF alo > ahi \/ blo > bhi THEN 0
    ELSE LET m == find_longest_match(a, b, alo, ahi, blo, bhi)
         IN  IF m[3] = 0 THEN 0
             ELSE m[3]
                  + matching_blocks_size(a, b, alo, m[1] - 1, blo, m[2] - 1)
                  + matching_blocks_size(a, b, m[1] + m[3], ahi, m[2] + m[3], bhi)

RECURSIVE lcs_row(_, _, _, _)
\* columns 1..j of the row of character ch in the longest-common-subsequence
\* table, prevrow being the row above
lcs_row(ch, b, prevrow, j) ==
    IF j = 0 THEN <<>>
    ELSE LET cur == lcs_row(ch, b, prevrow, j - 1)
             diag == IF j = 1 THEN 0 ELSE prevrow[j - 1]
             left == IF j = 1 THEN 0 ELSE cur[j - 1]
         IN  Append(cur, IF ch = b[j] THEN diag + 1 ELSE Max2(prevrow[j], left))

RECURSIVE lcs_rows(_, _, _)
\* row i of the table: the subsequence lengths of a[1..i] against b[1..j]
lcs_rows(a, b, i) ==
    IF i = 0 THEN [j \in 1..Len(b) |-> 0]
    ELSE LET prevrow == lcs_rows(a, b, i - 1)
         IN  IF Len(prevrow) = 0 THEN prevrow
             ELSE lcs_row(a[i], b, prevrow, Len(b))

\* python-Levenshtein: lensum - (edit distance, a substitution costing 2) = 2 * LCS
lcs_length(a, b) ==
    IF Len(a) = 0 \/ Len(b) = 0 THEN 0
    ELSE lcs_rows(a, b, Len(a))[Len(b)]

matched_chars(m, a, b) ==
    IF m = "difflib"
    THEN matching_blocks_size(a, b, 1, Len(a), 1, Len(b))
    ELSE lcs_length(a, b)

\* fuzz.ratio with its decorators check_for_equivalence and check_empty_string
fuzz_ratio(m, s1, s2) ==
    IF s1 = s2 THEN 100
    ELSE IF Len(s1) = 0 \/ Len(s2) = 0 THEN 0
    ELSE RoundHalfEven(200 * matched_chars(m, s1, s2), Len(s1) + Len(s2))

(***************************************************************************)
(* The reference catalog, self.city_mappings, in insertion order           *)
(***************************************************************************)
k_SF == <<"S", "F">>
k_SanFrancisco == <<"S", "a", "n", " ", "F", "r", "a", "n", "c", "i", "s", "c", "o">>
k_SanMateo == <<"S", "a", "n", " ", "M", "a", "t", "e", "o">>
k_SanMateoCounty ==
    <<"S", "a", "n", " ", "M", "a", "t", "e", "o", " ", "C", "o", "u", "n", "t", "y">>
k_SanLuisObispoCounty ==
    <<"S", "a", "n", " ", "L", "u", "i", "s", " ", "O", "b", "i", "s", "p", "o", " ",
      "C", "o", "u", "n", "t", "y">>
k_Oakland == <<"O", "a", "k", "l", "a", "n", "d">>
k_AlamedaCounty ==
    <<"A", "l", "a", "m", "e", "d", "a", " ", "C", "o", "u", "n", "t", "y">>
k_KernCounty == <<"K", "e", "r", "n", " ", "C", "o", "u", "n", "t", "y">>
k_SanFranciscoCounty ==
    <<"S", "a", "n", " ", "F", "r", "a", "n", "c", "i", "s", "c", "o", " ",
      "C", "o", "u", "n", "t", "y">>
v_SanLuisObispo ==
    <<"S", "a", "n", " ", "L", "u", "i", "s", " ", "O", "b", "i", "s", "p", "o">>
v_Alameda == <<"A", "l", "a", "m", "e", "d", "a">>
v_Kern == <<"K", "e", "r", "n">>

city_mappings ==
    << <<k_SF, k_SanFrancisco>>,
       <<k_SanFrancisco, k_SanFrancisco>>,
       <<k_SanMateo, k_SanMateo>>,
       <<k_SanMateoCounty, k_SanMateo>>,
       <<k_SanLuisObispoCounty, v_SanLuisObispo>>,
       <<k_Oakland, k_Oakland>>,
       <<k_AlamedaCounty, v_Alameda>>,
       <<k_KernCounty, v_Kern>>,
       <<k_SanFranciscoCounty, k_SanFrancisco>> >>

\* self.city_mappings.keys() and .values()
city_mappings_keys == {city_mappings[i][1] : i \in 1..Len(city_mappings)}
city_mappings_values == {city_mappings[i][2] : i \in 1..Len(city_mappings)}

\* self.city_mappings[key]
city_mappings_get(key) ==
    city_mappings[CHOOSE i \in 1..Len(city_mappings) : city_mappings[i][1] = key][2]

\* the score of every key, in the order process.extractWithoutOrder yields them
extract_scores(m, name) ==
    LET q == full_process(name)
    IN  [i \in 1..Len(city_mappings) |-> fuzz_ratio(m, q, full_process(city_mappings[i][1]))]

\* process.extractOne: max() over the yielded pairs keeps the first best one
extractOne(m, name) ==
    LET sc == extract_scores(m, name)
        best == CHOOSE i \in 1..Len(sc) :
                    /\ \A j \in 1..Len(sc) : sc[j] <= sc[i]
                    /\ \A j \in 1..(i - 1) : sc[j] < sc[i]
    IN  [match |-> city_mappings[best][1], score |-> sc[best]]

fuzzy_threshold == 80

\* mutant: the fuzzy branch returns the matched key, not its canonical name
standardize_city_path_returns_match(m, city) ==
    IF isna(city) \/ city = <<(<<>>)>>
    THEN [result |-> None, path |-> "null"]
    ELSE IF city[1] \in city_mappings_keys
    THEN [result |-> <<city_mappings_get(city[1])>>, path |-> "exact"]
    ELSE LET e == extractOne(m, city[1])
         IN  IF e.score >= fuzzy_threshold
             THEN [result |-> <<e.match>>, path |-> "fuzzy"]
             ELSE [result |-> city, path |-> "passthrough"]

\* mutant: no direct mapping first, every name goes to the fuzzy matcher
standardize_city_path_fuzzy_first(m, city) ==
    IF isna(city) \/ city = <<(<<>>)>>
    THEN [result |-> None, path |-> "null"]
    ELSE LET e == extractOne(m, city[1])
         IN  IF e.score >= fuzzy_threshold
             THEN [result |-> <<city_mappings_get(e.match)>>, path |-> "fuzzy"]
             ELSE [result |-> city, path |-> "passthrough"]

\* mutant: only pd.isna(city) is tested, the empty string goes on
standardize_city_path_no_empty_check(m, city) ==
    IF isna(city)
    THEN [result |-> None, path |-> "null"]
    ELSE IF city[1] \in city_mappings_keys
    THEN [result |-> <<city_mappings_get(city[1])>>, path |-> "exact"]
    ELSE LET e == extractOne(m, city[1])
         IN  IF e.score >= fuzzy_threshold
             THEN [result |-> <<city_mappings_get(e.match)>>, path |-> "fuzzy"]
             ELSE [result |-> city, path |-> "passthrough"]

\* mutant: the threshold is exclusive, a score of exactly 80 is not a match
standardize_city_path_above_threshold(m, city) ==
    IF isna(city) \/ city = <<(<<>>)>>
    THEN [result |-> None, path |-> "null"]
    ELSE IF city[1] \in city_mappings_keys
    THEN [result |-> <<city_mappings_get(city[1])>>, path |-> "exact"]
    ELSE LET e == extractOne(m, city[1])
         IN  IF e.score > fuzzy_threshold
             THEN [result |-> <<city_mappings_get(e.match)>>, path |-> "fuzzy"]
             ELSE [result |-> city, path |-> "passthrough"]

\* standardize_city with the step that decided: [result, path]
standardize_city_path(m, city) ==
    IF isna(city) \/ city = <<(<<>>)>>
    THEN [result |-> None, path |-> "null"]
    ELSE IF city[1] \in city_mappings_keys
    THEN [result |-> <<city_mappings_get(city[1])>>, path |-> "exact"]
    ELSE LET e == extractOne(m, city[1])
         IN  IF e.score >= fuzzy_threshold
             THEN [result |-> <<city_mappings_get(e.match)>>, path |-> "fuzzy"]
             ELSE [result |-> city, path |-> "passthrough"]

standardize_city(m, city) == standardize_city_path(m, city).result

(***************************************************************************)
(* Numbers: exact fractions <<n, d>> in lowest terms with d > 0; NaN = <<>>*)
(***************************************************************************)
Abs(x) == IF x < 0 THEN -x ELSE x

RECURSIVE GCD(_, _)
GCD(x, y) == IF y = 0 THEN x ELSE GCD(y, x % y)

Frac(n, d) ==
    LET g == GCD(Abs(n), Abs(d))
        s == IF d < 0 THEN -1 ELSE 1
    IN  <<(s * n) \div g, (s * d) \div g>>

Num(n) == <<n, 1>>
Add(x, y) == IF isna(x) \/ isna(y) THEN NaN ELSE Frac(x[1] * y[2] + y[1] * x[2], x[2] * y[2])
Sub(x, y) == IF isna(x) \/ isna(y) THEN NaN ELSE Frac(x[1] * y[2] - y[1] * x[2], x[2] * y[2])
Mul(x, y) == IF isna(x) \/ isna(y) THEN NaN ELSE Frac(x[1] * y[1], x[2] * y[2])
\* IEEE division as numpy does it: 0/0 is NaN and raises nothing.  A nonzero
\* numerator over zero (an infinity) cannot arise below: min <= capacity <= max.
Div(x, y) ==
    IF isna(x) \/ isna(y) THEN NaN
    ELSE IF y[1] = 0 THEN NaN
    ELSE Frac(x[1] * y[2], x[2] * y[1])
\* comparisons with NaN are false
Less(x, y) == ~isna(x) /\ ~isna(y) /\ x[1] * y[2] < y[1] * x[2]
Leq(x, y) == ~isna(x) /\ ~isna(y) /\ x[1] * y[2] <= y[1] * x[2]

\* Python's max(0, x): x replaces 0 only if x > 0, which is false of NaN
py_max0(x) == IF Less(Num(0), x) THEN x ELSE Num(0)

\* Series.round(3): to the nearest thousandth, a tie to the even one; NaN stays NaN
round3(x) ==
    IF isna(x) THEN NaN
    ELSE IF x[1] >= 0 THEN Frac(RoundHalfEven(1000 * x[1], x[2]), 1000)
    ELSE Frac(-RoundHalfEven(1000 * (-x[1]), x[2]), 1000)

(***************************************************************************)
(* _calculate_site_potential_score                                         *)
(***************************************************************************)
max_distance == 500

\* self._haversine_distance(row.latitude, row.longitude, TARGET_LAT, TARGET_LON): a
\* record's coordinates are modelled by their great-circle distance from the
\* target in km; missing coordinates (NaN) give NaN
haversine_distance(coord) == coord

\* mutant: 1 - d / max_distance without the max(0, ...)
proximity_score_unclamped(d) == Sub(Num(1), Div(d, Num(max_distance)))

\* lambda d: max(0, 1 - (d / max_distance))
proximity_score(d) == py_max0(Sub(Num(1), Div(d, Num(max_distance))))

\* df['zoningType'].map(zoning_scores).fillna(0.5)
zoning_favorability(z) ==
    IF z = <<"Industrial">> THEN Frac(1, 1)
    ELSE IF z = <<"Commercial">> THEN Frac(7, 10)
    ELSE IF z = <<"Agricultural">> THEN Frac(4, 10)
    ELSE IF z = <<"Residential">> THEN Frac(2, 10)
    ELSE Frac(5, 10)

\* the capacities Series.max() and Series.min() look at: NaN is skipped
capacities(d) == {d[i].capacity : i \in {j \in 1..Len(d) : ~isna(d[j].capacity)}}

\* df['capacity'].max()
max_capacity(d) ==
    IF capacities(d) = {} THEN NaN
    ELSE CHOOSE c \in capacities(d) : \A o \in capacities(d) : Leq(o, c)

\* df['capacity'].min()
min_capacity(d) ==
    IF capacities(d) = {} THEN NaN
    ELSE CHOOSE c \in capacities(d) : \A o \in capacities(d) : Leq(c, o)

\* (df['capacity'] - min_capacity) / (max_capacity - min_capacity), one row
capacity_normalized(d, cap) ==
    Div(Sub(cap, min_capacity(d)), Sub(max_capacity(d), min_capacity(d)))

\* 0.40 * proximity_score + 0.35 * zoning_favorability + 0.25 * capacity_normalized
weighted_sum(p, z, c) ==
    Add(Add(Mul(Frac(40, 100), p), Mul(Frac(35, 100), z)), Mul(Frac(25, 100), c))

\* the columns the scorer adds to one row of d
scored_row(d, r) ==
    LET km == haversine_distance(r.coord)
        p == proximity_score(km)
        z == zoning_favorability(r.zoningType)
        c == capacity_normalized(d, r.capacity)
    IN  r @@ [proximity_to_target_km |-> km,
              proximity_score |-> p,
              zoning_favorability |-> z,
              capacity_normalized |-> c,
              site_potential_score |-> round3(weighted_sum(p, z, c))]

\* mutant: one record at a time, min and max taken over the records seen so far
calculate_site_potential_score_streaming(d) ==
    [i \in 1..Len(d) |-> scored_row(SubSeq(d, 1, i), d[i])]

\* mutant: the cleanup filter of _clean_data runs first, min and max are taken
\* over the records that have an identifier, a capacity and a state
calculate_site_potential_score_after_cleanup(d) ==
    LET kept == SelectSeq(d, LAMBDA r :
                    ~isna(r.plantCode) /\ ~isna(r.capacity) /\ ~isna(r.state))
    IN  [i \in 1..Len(d) |-> scored_row(kept, d[i])]

calculate_site_potential_score(d) == [i \in 1..Len(d) |-> scored_row(d, d[i])]

(***************************************************************************)
(* _standardize_geography and _clean_data                                  *)
(***************************************************************************)
\* pd.DataFrame(raw_data): row i gets index i
DataFrame(raw) == [i \in 1..Len(raw) |-> raw[i] @@ [idx |-> i]]

\* df['city_standardized'] = df['city'].apply(standardize_city); resolved_by is
\* history: the step of standardize_city that returned
standardize_geography(m, d) ==
    [i \in 1..Len(d) |->
        LET sp == standardize_city_path(m, d[i].city)
        IN  d[i] @@ [city_standardized |-> sp.result, resolved_by |-> sp.path]]

\* mutant: 'state' left out of the subset
dropna_without_state(d) ==
    SelectSeq(d, LAMBDA r : ~isna(r.plantCode) /\ ~isna(r.capacity))

\* df.dropna(subset=['plantCode', 'capacity', 'state'])
dropna(d) ==
    SelectSeq(d, LAMBDA r : ~isna(r.plantCode) /\ ~isna(r.capacity) /\ ~isna(r.state))

\* df.rename(columns=column_mapping), one row
rename(r) ==
    [idx |-> r.idx,
     plant_code |-> r.plantCode,
     city |-> r.city,
     city_standardized |-> r.city_standardized,
     resolved_by |-> r.resolved_by,
     state |-> r.state,
     coord |-> r.coord,
     capacity_mw |-> r.capacity,
     zoning_type |-> r.zoningType,
     proximity_to_target_km |-> r.proximity_to_target_km,
     proximity_score |-> r.proximity_score,
     zoning_favorability |-> r.zoning_favorability,
     capacity_normalized |-> r.capacity_normalized,
     site_potential_score |-> r.site_potential_score]

clean_data(d) == LET kept == dropna(d) IN [i \in 1..Len(kept) |-> rename(kept[i])]

(***************************************************************************)
(* load_data: INSERT ... ON CONFLICT (plant_code) DO UPDATE SET ...        *)
(***************************************************************************)
\* the tuple load_data builds from one row: the columns of the INSERT
insert_record(r) ==
    [plant_code |-> r.plant_code,
     city |-> r.city,
     city_standardized |-> r.city_standardized,
     state |-> r.state,
     capacity_mw |-> r.capacity_mw,
     proximity_to_target_km |-> r.proximity_to_target_km,
     proximity_score |-> r.proximity_score,
     zoning_type |-> r.zoning_type,
     zoning_favorability |-> r.zoning_favorability,
     site_potential_score |-> r.site_potential_score]

\* DO UPDATE SET: the columns an existing row takes from the new one (EXCLUDED)
do_update(old, new) ==
    [old EXCEPT !.capacity_mw = new.capacity_mw,
                !.proximity_to_target_km = new.proximity_to_target_km,
                !.proximity_score = new.proximity_score,
                !.zoning_type = new.zoning_type,
                !.zoning_favorability = new.zoning_favorability,
                !.site_potential_score = new.site_potential_score]

\* one INSERT ... ON CONFLICT statement
upsert(tbl, rec) ==
    IF \E row \in tbl : row.plant_code = rec.plant_code
    THEN {IF row.plant_code = rec.plant_code THEN do_update(row, rec) ELSE row : row \in tbl}
    ELSE tbl \cup {rec}

RECURSIVE execute_batch(_, _, _)
\* execute_batch: the statements run one after the other, in the order of records
execute_batch(tbl, records, i) ==
    IF i > Len(records) THEN tbl
    ELSE execute_batch(upsert(tbl, records[i]), records, i + 1)

RECURSIVE record_loaded(_, _, _)
\* history: per plant_code the last record of records, else what was there
record_loaded(last, records, i) ==
    IF i > Len(records) THEN last
    ELSE record_loaded([last EXCEPT ![records[i].plant_code[1]] = <<records[i]>>],
                       records, i + 1)

(***************************************************************************)
(* Input batches                                                           *)
(***************************************************************************)
MaxBatch == 2

PlantCodes == {"P1", "P2"}

Rec(code, city, state, coord, cap, zoning) ==
    [plantCode |-> code, city |-> city, state |-> state, coord |-> coord,
     capacity |-> cap, zoningType |-> zoning]

\* every batch of at most MaxBatch records of R, the empty batch included
BatchesOf(R) == UNION {[1..n -> R] : n \in 0..MaxBatch}

n_SanFrnacisco == <<"S", "a", "n", " ", "F", "r", "n", "a", "c", "i", "s", "c", "o">>
n_sf == <<"s", "f">>
n_S_F_ == <<"S", ".", "F", ".">>
n_KernCo == <<"K", "e", "r", "n", " ", "C", "o">>
n_LosAngeles == <<"L", "o", "s", " ", "A", "n", "g", "e", "l", "e", "s">>
n_Oaklnd == <<"O", "a", "k", "l", "n", "d">>

\* raw city names: every key, every canonical name, null, '', and names off the catalog
Names ==
    {<<k>> : k \in city_mappings_keys \cup city_mappings_values}
    \cup {None, <<(<<>>)>>}
    \cup {<<n_SanFrnacisco>>, <<n_sf>>, <<n_S_F_>>, <<n_KernCo>>, <<n_LosAngeles>>, <<n_Oaklnd>>}

\* one record per name
ResolverBatches ==
    {<<>>} \cup {<<Rec(<<"P1">>, n, <<"CA">>, Num(0), Num(100), <<"Industrial">>)>> : n \in Names}

\* distances around the cutoff, zoning in and off the table, capacities with a gap
ScorerRecords ==
    {Rec(<<"P1">>, <<k_SF>>, <<"CA">>, d, c, z) :
        d \in {Num(0), Num(125), Num(500), Num(750), NaN},
        c \in {Num(10), Num(100), NaN},
        z \in {<<"Industrial">>, None}}
ScorerBatches == BatchesOf(ScorerRecords)

\* the same records in batches of equal and of different capacity ranges
RescoreRecords ==
    {Rec(<<"P1">>, <<k_SF>>, <<"CA">>, Num(125), c, z) :
        c \in {Num(10), Num(100)}, z \in {<<"Industrial">>, <<"Residential">>}}
    \cup {Rec(<<"P1">>, <<k_SF>>, <<"CA">>, Num(125), Num(55), <<"Industrial">>)}
RescoreBatches == BatchesOf(RescoreRecords)

\* each mandatory field present or missing
CleanRecords ==
    {Rec(code, <<k_SF>>, st, Num(0), c, <<"Industrial">>) :
        code \in {<<"P1">>, None}, st \in {<<"CA">>, None}, c \in {Num(10), Num(100), NaN}}
CleanBatches == BatchesOf(CleanRecords)

\* two plants, each reported as a small plant in SF or a large one in Oakland
LoadRecords ==
    {Rec(<<code>>, v[1], <<"CA">>, v[2], v[3], <<"Industrial">>) :
        code \in PlantCodes,
        v \in {<< <<k_SF>>, Num(0), Num(10) >>, << <<k_Oakland>>, Num(125), Num(100) >>}}
LoadBatches == BatchesOf(LoadRecords)

(***************************************************************************)
(* State machine                                                           *)
(***************************************************************************)
Init ==
    /\ pc = "start"
    /\ conn = "None"
    /\ matcher \in Matchers
    /\ raw_data = <<>>
    /\ df = <<>>
    /\ prev_call = [raw |-> <<>>, out |-> <<>>]
    /\ table = {}
    /\ last_loaded = [p \in PlantCodes |-> None]
    /\ tx = None
    /\ records_loaded = None
    /\ run_log = [calls |-> <<>>, raised |-> ""]

\* history: a method is called; it raises
Call(log, step) == [log EXCEPT !.calls = Append(@, step)]
Raise(log, step) == [log EXCEPT !.raised = step]

\* connect_db: psycopg2.connect succeeds, or raises and leaves self.conn None
connect_db ==
    /\ pc = "start"
    /\ \E ok \in BOOLEAN :
          IF ok
          THEN conn' = "open" /\ pc' = "connected"
               /\ run_log' = Call(run_log, "connect_db")
          ELSE conn' = conn /\ pc' = "failed"
               /\ run_log' = Raise(Call(run_log, "connect_db"), "connect_db")
    /\ UNCHANGED <<matcher, raw_data, df, prev_call, table, last_loaded, tx, records_loaded>>

\* create_schema: executes and commits schema.sql, or rolls back and raises
create_schema ==
    /\ pc = "connected"
    /\ \E ok \in BOOLEAN :
          IF ok
          THEN pc' = "schema" /\ run_log' = Call(run_log, "create_schema")
          ELSE pc' = "failed"
               /\ run_log' = Raise(Call(run_log, "create_schema"), "create_schema")
    /\ UNCHANGED <<conn, matcher, raw_data, df, prev_call, table, last_loaded, tx,
                   records_loaded>>

\* extract_data: the records of the source, or the exception of a failed read
extract_data(U) ==
    /\ pc = "schema"
    /\ \/ /\ \E b \in U : raw_data' = b
          /\ pc' = "extracted"
          /\ run_log' = Call(run_log, "extract_data")
       \/ /\ raw_data' = raw_data
          /\ pc' = "failed"
          /\ run_log' = Raise(Call(run_log, "extract_data"), "extract_data")
    /\ UNCHANGED <<conn, matcher, df, prev_call, table, last_loaded, tx, records_loaded>>

\* transform_data called on its own with a batch of U
transform_data_call(U) ==
    /\ pc = "start"
    /\ \E b \in U : raw_data' = b
    /\ pc' = "extracted"
    /\ UNCHANGED <<conn, matcher, df, prev_call, table, last_loaded, tx, records_loaded,
                   run_log>>

\* transform_data, first step: pd.DataFrame(raw_data) and _standardize_geography;
\* an empty batch has no 'city' column and df['city'] raises KeyError
transform_standardize ==
    /\ pc = "extracted"
    /\ IF raw_data = <<>>
       THEN /\ df' = <<>>
            /\ pc' = "failed"
            /\ run_log' = Raise(Call(run_log, "transform_data"), "transform_data")
       ELSE /\ df' = standardize_geography(matcher, DataFrame(raw_data))
            /\ pc' = "standardized"
            /\ run_log' = Call(run_log, "transform_data")
    /\ UNCHANGED <<conn, matcher, raw_data, prev_call, table, last_loaded, tx,
                   records_loaded>>

\* transform_data, second step: _calculate_site_potential_score.  When no record
\* has coordinates the latitude column holds None objects, not NaN, and
\* radians(None) raises TypeError; a column with one number holds NaN for the rest
transform_score ==
    /\ pc = "standardized"
    /\ IF \A i \in 1..Len(df) : isna(df[i].coord)
       THEN df' = df /\ pc' = "failed" /\ run_log' = Raise(run_log, "transform_data")
       ELSE df' = calculate_site_potential_score(df) /\ pc' = "scored"
            /\ run_log' = run_log
    /\ UNCHANGED <<conn, matcher, raw_data, prev_call, table, last_loaded, tx,
                   records_loaded>>

\* transform_data, third step: _clean_data
transform_clean ==
    /\ pc = "scored"
    /\ df' = clean_data(df)
    /\ pc' = "transformed"
    /\ UNCHANGED <<conn, matcher, raw_data, prev_call, table, last_loaded, tx,
                   records_loaded, run_log>>

\* transform_data returns (or has raised) to a caller that calls it again
transform_data_return ==
    /\ pc \in {"transformed", "failed"}
    /\ pc' = "start"
    /\ raw_data' = <<>>
    /\ df' = <<>>
    /\ run_log' = [calls |-> <<>>, raised |-> ""]
    /\ UNCHANGED <<conn, matcher, prev_call, table, last_loaded, tx, records_loaded>>

\* the same, the caller keeping the batch and the result to compare the next with
transform_data_return_kept ==
    /\ pc \in {"transformed", "failed"}
    /\ pc' = "start"
    /\ prev_call' = IF pc = "transformed" THEN [raw |-> raw_data, out |-> df] ELSE prev_call
    /\ raw_data' = <<>>
    /\ df' = <<>>
    /\ run_log' = [calls |-> <<>>, raised |-> ""]
    /\ UNCHANGED <<conn, matcher, table, last_loaded, tx, records_loaded>>

\* load_data: records, one tuple per row of df
records == [i \in 1..Len(df) |-> insert_record(df[i])]

\* the transaction of self.conn: how many statements of the batch it has executed
\* and the rows of power_plants as it sees them (psycopg2 opens it at the first
\* execute after a commit; create_schema has committed)
tx_done == IF isna(tx) THEN 0 ELSE tx[1].done
tx_power_plants == IF isna(tx) THEN table ELSE tx[1].power_plants

\* load_data has been entered when its first step leaves "transformed"
load_data_log == IF pc = "transformed" THEN Call(run_log, "load_data") ELSE run_log

\* mutant: the connection is in autocommit mode, every statement is committed
\* as it is executed
load_execute_autocommit ==
    /\ pc \in {"transformed", "loading"}
    /\ tx_done < Len(records)
    /\ \/ /\ table' = upsert(table, records[tx_done + 1])
          /\ tx' = <<[done |-> tx_done + 1, power_plants |-> table']>>
          /\ pc' = "loading"
       \/ /\ table' = table
          /\ tx' = tx
          /\ pc' = "load_raised"
    /\ run_log' = load_data_log
    /\ UNCHANGED <<conn, matcher, raw_data, df, prev_call, last_loaded, records_loaded>>

\* load_data, execute_batch: the next statement of the batch is executed inside
\* the transaction, or raises
load_execute ==
    /\ pc \in {"transformed", "loading"}
    /\ tx_done < Len(records)
    /\ \/ /\ tx' = <<[done |-> tx_done + 1,
                      power_plants |-> upsert(tx_power_plants, records[tx_done + 1])]>>
          /\ pc' = "loading"
       \/ /\ tx' = tx
          /\ pc' = "load_raised"
    /\ run_log' = load_data_log
    /\ UNCHANGED <<conn, matcher, raw_data, df, prev_call, table, last_loaded,
                   records_loaded>>

\* load_data, self.conn.commit() after the last statement: the rows of the
\* transaction become the table and len(records) is returned, or commit raises
load_commit ==
    /\ pc \in {"transformed", "loading"}
    /\ tx_done = Len(records)
    /\ \/ /\ table' = tx_power_plants
          /\ tx' = None
          /\ last_loaded' = record_loaded(last_loaded, records, 1)
          /\ records_loaded' = <<Len(records)>>
          /\ pc' = "loaded"
       \/ /\ pc' = "load_raised"
          /\ UNCHANGED <<table, tx, last_loaded, records_loaded>>
    /\ run_log' = load_data_log
    /\ UNCHANGED <<conn, matcher, raw_data, df, prev_call>>

\* load_data, except: self.conn.rollback() discards the transaction, then raise
load_rollback ==
    /\ pc = "load_raised"
    /\ tx' = None
    /\ pc' = "failed"
    /\ run_log' = Raise(run_log, "load_data")
    /\ UNCHANGED <<conn, matcher, raw_data, df, prev_call, table, last_loaded,
                   records_loaded>>

\* load_data: every record upserted and committed, or rollback and re-raise
load_data == load_execute \/ load_commit \/ load_rollback

\* a SELECT of run(): it reads the table and changes nothing, or raises
Query(step, from, to) ==
    /\ pc = from
    /\ \E ok \in BOOLEAN :
          IF ok
          THEN pc' = to /\ run_log' = Call(run_log, step)
          ELSE pc' = "failed" /\ run_log' = Raise(Call(run_log, step), step)
    /\ UNCHANGED <<conn, matcher, raw_data, df, prev_call, table, last_loaded, tx,
                   records_loaded>>

query_high_potential_sites ==
    Query("query_high_potential_sites", "loaded", "queried_sites")
query_capacity_by_region ==
    Query("query_capacity_by_region", "queried_sites", "queried_regions")
query_fuzzy_match_examples ==
    Query("query_fuzzy_match_examples", "queried_regions", "completed")

\* mutant: close_db is the last statement of the try block, not a finally
close_db_not_finally ==
    /\ pc \in {"completed", "failed"}
    /\ IF pc = "completed"
       THEN /\ conn' = IF conn = "open" THEN "closed" ELSE conn
            /\ run_log' = Call(run_log, "close_db")
       ELSE /\ conn' = conn
            /\ run_log' = run_log
    /\ pc' = "done"
    /\ UNCHANGED <<matcher, raw_data, df, prev_call, table, last_loaded, tx,
                   records_loaded>>

\* finally: close_db closes the connection if there is one
close_db ==
    /\ pc \in {"completed", "failed"}
    /\ conn' = IF conn = "open" THEN "closed" ELSE conn
    /\ pc' = "done"
    /\ run_log' = Call(run_log, "close_db")
    /\ UNCHANGED <<matcher, raw_data, df, prev_call, table, last_loaded, tx,
                   records_loaded>>

\* main() again: a new GridCAREETL on the same database
run_again ==
    /\ pc = "done"
    /\ pc' = "start"
    /\ conn' = "None"
    /\ raw_data' = <<>>
    /\ df' = <<>>
    /\ records_loaded' = None
    /\ run_log' = [calls |-> <<>>, raised |-> ""]
    /\ UNCHANGED <<matcher, prev_call, table, last_loaded, tx>>

\* run(), one pipeline after the other
Next ==
    \/ connect_db
    \/ create_schema
    \/ extract_data(LoadBatches)
    \/ transform_standardize
    \/ transform_score
    \/ transform_clean
    \/ load_data
    \/ query_high_potential_sites
    \/ query_capacity_by_region
    \/ query_fuzzy_match_examples
    \/ close_db
    \/ run_again

Spec == Init /\ [][Next]_vars

\* transform_data called again and again on the batches of U
TransformNext(U) ==
    \/ transform_data_call(U)
    \/ transform_standardize
    \/ transform_score
    \/ transform_clean
    \/ transform_data_return

NextResolver == TransformNext(ResolverBatches)
SpecResolver == Init /\ [][NextResolver]_vars

NextScorer == TransformNext(ScorerBatches)
SpecScorer == Init /\ [][NextScorer]_vars

NextClean == TransformNext(CleanBatches)
SpecClean == Init /\ [][NextClean]_vars

NextRescore ==
    \/ transform_data_call(RescoreBatches)
    \/ transform_standardize
    \/ transform_score
    \/ transform_clean
    \/ transform_data_return_kept
SpecRescore == Init /\ [][NextRescore]_vars

(***************************************************************************)
(* Properties                                                              *)
(***************************************************************************)
Resolved == pc \in {"standardized", "scored", "transformed"}
Scored == pc \in {"scored", "transformed"}
Rows == 1..Len(df)

\* C1: a canonical name (a value of city_mappings) resolves to itself, whichever
\* step of standardize_city decides it (exact lookup, fuzzy match, passthrough).
C1_CanonicalFixedPoint ==
    Resolved =>
        \A i \in Rows :
            (~isna(df[i].city) /\ df[i].city[1] \in city_mappings_values)
                => df[i].city_standardized = df[i].city

\* a canonical name that is no key and comes back through the fuzzy match
C1_Witness ==
    /\ pc = "standardized"
    /\ df[1].city = <<v_SanLuisObispo>>
    /\ df[1].resolved_by = "fuzzy"
    /\ df[1].city_standardized = <<v_SanLuisObispo>>

\* C2: a name that is verbatim a key of city_mappings resolves to city_mappings[r],
\* and it is the exact lookup that returns: the fuzzy matcher is not reached.
C2_ExactKeyWins ==
    Resolved =>
        \A i \in Rows :
            (~isna(df[i].city) /\ df[i].city[1] \in city_mappings_keys)
                => /\ df[i].city_standardized = <<city_mappings_get(df[i].city[1])>>
                   /\ df[i].resolved_by = "exact"

\* the key 'SF', which differs from its canonical name
C2_Witness ==
    /\ pc = "standardized"
    /\ df[1].city = <<k_SF>>
    /\ df[1].city_standardized = <<k_SanFrancisco>>
    /\ df[1].resolved_by = "exact"

\* C3: a null name and the empty string resolve to null, by the first test of
\* standardize_city: neither the catalog nor the fuzzy matcher is consulted.
C3_NullAndEmptyGiveNull ==
    Resolved =>
        \A i \in Rows :
            (isna(df[i].city) \/ df[i].city = <<(<<>>)>>)
                => /\ isna(df[i].city_standardized)
                   /\ df[i].resolved_by = "null"

\* the empty string, resolved
C3_Witness ==
    /\ pc = "standardized"
    /\ df[1].city = <<(<<>>)>>
    /\ isna(df[1].city_standardized)

\* every record of the batch has a capacity and they are all the same
SameCapacity ==
    /\ \A i \in Rows : ~isna(df[i].capacity)
    /\ \A i, j \in Rows : df[i].capacity = df[j].capacity

InUnitInterval(x) == Leq(Num(0), x) /\ Leq(x, Num(1))

\* C4: when every record of the batch has the same capacity (a batch of one
\* included), capacity_normalized of every record is one constant of [0,1], and
\* neither it nor site_potential_score is NaN.
C4_DegenerateBatchDefined ==
    (pc = "scored" /\ SameCapacity) =>
        /\ \A i \in Rows :
              /\ InUnitInterval(df[i].capacity_normalized)
              /\ ~isna(df[i].site_potential_score)
        /\ \A i, j \in Rows : df[i].capacity_normalized = df[j].capacity_normalized

\* C5: every record transform_data returns has a site_potential_score that is
\* a number of [0,1].
C5_ScoreInUnitInterval ==
    pc = "transformed" =>
        \A i \in Rows : InUnitInterval(df[i].site_potential_score)

\* C6: power_plants holds at most one row per plant_code, and the row of a
\* plant_code has the site_potential_score, city_standardized, proximity_score
\* and zoning_favorability of the record loaded last with that plant_code.
C6_UpsertOverwritesDerived ==
    /\ \A r1, r2 \in table : r1.plant_code = r2.plant_code => r1 = r2
    /\ \A p \in PlantCodes :
          ~isna(last_loaded[p]) =>
              \E row \in table :
                  /\ row.plant_code = <<p>>
                  /\ row.site_potential_score = last_loaded[p][1].site_potential_score
                  /\ row.city_standardized = last_loaded[p][1].city_standardized
                  /\ row.proximity_score = last_loaded[p][1].proximity_score
                  /\ row.zoning_favorability = last_loaded[p][1].zoning_favorability

\* C7: the score of a record depends only on the record and on the minimum and
\* maximum capacity of its batch: the same batch scored again gives the same
\* result, and so does the same record in another batch of the same range,
\* whatever the earlier call left behind.
C7_ScoreDeterministic ==
    pc = "transformed" =>
        /\ raw_data = prev_call.raw => df = prev_call.out
        /\ (/\ min_capacity(raw_data) = min_capacity(prev_call.raw)
            /\ max_capacity(raw_data) = max_capacity(prev_call.raw))
              => \A i \in Rows, j \in 1..Len(prev_call.out) :
                    (/\ df[i].coord = prev_call.out[j].coord
                     /\ df[i].zoning_type = prev_call.out[j].zoning_type
                     /\ df[i].capacity_mw = prev_call.out[j].capacity_mw)
                        => df[i].site_potential_score = prev_call.out[j].site_potential_score

\* the same two-record batch scored a second time, both scores being numbers
C7_Witness ==
    /\ pc = "transformed"
    /\ raw_data = prev_call.raw
    /\ Len(df) = 2
    /\ ~isna(df[1].site_potential_score)
    /\ df[1].site_potential_score # df[2].site_potential_score

\* the rows of d that have an identifier, a capacity and a state
Complete(d) ==
    {i \in 1..Len(d) :
        ~isna(d[i].plantCode) /\ ~isna(d[i].capacity) /\ ~isna(d[i].state)}

C9_CatalogReflexive ==
    Resolved =>
        \A i \in Rows :
            (~isna(df[i].city) /\ df[i].city[1] \in city_mappings_values)
                => /\ df[i].city[1] \in city_mappings_keys
                   /\ city_mappings_get(df[i].city[1]) = df[i].city[1]
                   /\ df[i].resolved_by = "exact"

\* C10: for a distance d >= 0 the proximity score is max(0, 1 - d/500): 1 at
\* distance 0, (500 - d)/500 below 500 km, 0 from 500 km on, never outside [0,1].
C10_ProximityClamped ==
    Scored =>
        \A i \in Rows :
            LET d == df[i].proximity_to_target_km
                p == df[i].proximity_score
            IN  ~isna(d) =>
                    /\ InUnitInterval(p)
                    /\ d = Num(0) => p = Num(1)
                    /\ Leq(Num(500), d) => p = Num(0)
                    /\ Less(d, Num(500)) => Mul(p, Num(500)) = Sub(Num(500), d)

\* a record beyond the cutoff, its score clamped to 0
C10_Witness ==
    /\ pc = "scored"
    /\ \E i \in Rows :
          /\ df[i].proximity_to_target_km = Num(750)
          /\ df[i].proximity_score = Num(0)

\* the best similarity score of a name over the keys of the catalog, and the
\* keys that reach it
BestScore(name) ==
    LET sc == extract_scores(matcher, name)
    IN  CHOOSE b \in {sc[i] : i \in 1..Len(sc)} : \A j \in 1..Len(sc) : sc[j] <= b
BestKeys(name) ==
    LET sc == extract_scores(matcher, name)
    IN  {city_mappings[i][1] : i \in {j \in 1..Len(sc) : sc[j] = BestScore(name)}}

\* C11: a non-empty name that is no key of city_mappings resolves to the
\* canonical name of a best-scoring key if and only if the best score is at
\* least 80, and to itself otherwise; every result of the resolver is null, a
\* canonical name of the catalog, or the input.
C11_FuzzyThreshold ==
    Resolved =>
        \A i \in Rows :
            /\ \/ isna(df[i].city_standardized)
               \/ df[i].city_standardized[1] \in city_mappings_values
               \/ df[i].city_standardized = df[i].city
            /\ (/\ ~isna(df[i].city)
                /\ df[i].city # <<(<<>>)>>
                /\ df[i].city[1] \notin city_mappings_keys)
                  => IF BestScore(df[i].city[1]) >= 80
                     THEN /\ df[i].resolved_by = "fuzzy"
                          /\ \E k \in BestKeys(df[i].city[1]) :
                                df[i].city_standardized = <<city_mappings_get(k)>>
                     ELSE /\ df[i].resolved_by = "passthrough"
                          /\ df[i].city_standardized = df[i].city

\* 'S.F.' scores exactly 80 against 'SF' and resolves to 'San Francisco'
C11_Witness ==
    /\ pc = "standardized"
    /\ df[1].city = <<n_S_F_>>
    /\ BestScore(n_S_F_) = 80
    /\ df[1].resolved_by = "fuzzy"
    /\ df[1].city_standardized = <<k_SanFrancisco>>

\* 'Kern Co' scores below 80 against every key and is returned as it is
C11_WitnessBelow ==
    /\ pc = "standardized"
    /\ df[1].city = <<n_KernCo>>
    /\ BestScore(n_KernCo) < 80
    /\ df[1].city_standardized = <<n_KernCo>>

\* C12: max_capacity and min_capacity are one pair per call, taken over the
\* whole batch handed to transform_data (every record with a capacity, the
\* records _clean_data drops afterwards included); capacity_normalized of every
\* row, and through it site_potential_score, is computed from that pair, and
\* cleanup does not change it.
C12_BatchPairBeforeCleanup ==
    Scored =>
        LET lo == min_capacity(raw_data)
            hi == max_capacity(raw_data)
        IN  \A i \in Rows :
                LET n == Div(Sub(raw_data[df[i].idx].capacity, lo), Sub(hi, lo))
                IN  /\ df[i].capacity_normalized = n
                    /\ df[i].site_potential_score =
                          round3(weighted_sum(df[i].proximity_score,
                                              df[i].zoning_favorability, n))

\* the smaller plant has no identifier and is dropped; the plant that is kept is
\* normalized against it all the same
C12_Witness ==
    /\ pc = "transformed"
    /\ Len(raw_data) = 2
    /\ isna(raw_data[1].plantCode)
    /\ raw_data[1].capacity = Num(10)
    /\ raw_data[2].capacity = Num(100)
    /\ Len(df) = 1
    /\ df[1].idx = 2
    /\ df[1].capacity_normalized = Num(1)
    /\ ~isna(df[1].site_potential_score)

\* a step of load_data: nothing visible while it runs, everything at the
\* commit, nothing after the rollback
LoadStepAllOrNothing ==
    pc \in {"transformed", "loading", "load_raised"} =>
        \/ /\ pc' \in {"loading", "load_raised"}
           /\ table' = table
           /\ records_loaded' = None
        \/ /\ pc' = "loaded"
           /\ table' = execute_batch(table, records, 1)
           /\ \A i \in Rows : \E row \in table' : row.plant_code = df[i].plant_code
           /\ tx' = None
           /\ records_loaded' = <<Len(df)>>
           /\ run_log'.raised = ""
        \/ /\ pc = "load_raised"
           /\ pc' = "failed"
           /\ table' = table
           /\ tx' = None
           /\ records_loaded' = None
           /\ run_log'.raised = "load_data"

\* C13: load_data is all-or-nothing.  While it runs the table does not change;
\* it ends either with the commit, after which the table is the old table with
\* every record of df upserted and len(records) is returned, or with the
\* rollback and the exception re-raised, the table being what it was before.
C13_LoadAllOrNothing == [][LoadStepAllOrNothing]_vars

\* a load of two records into a table of an earlier run has raised and has been
\* rolled back: the table is not what the load would have made it
C13_Witness ==
    /\ pc = "failed"
    /\ run_log.raised = "load_data"
    /\ Len(df) = 2
    /\ table # {}
    /\ isna(tx)
    /\ execute_batch(table, records, 1) # table

\* the same load, stopped after its first statement: the transaction sees a row
\* the table does not have
C13_WitnessPartial ==
    /\ pc = "load_raised"
    /\ Len(df) = 2
    /\ tx_done = 1
    /\ tx_power_plants # table

\* the methods of run() in the order of its try block
run_order ==
    <<"connect_db", "create_schema", "extract_data", "transform_data", "load_data",
      "query_high_potential_sites", "query_capacity_by_region",
      "query_fuzzy_match_examples">>

\* the calls of the try block: run_log.calls without the close_db of the finally
TryCalls ==
    SelectSeq(run_log.calls, LAMBDA c : c # "close_db")

\* C14: run() calls connect_db, create_schema, extract_data, transform_data,
\* load_data and the three queries in this order; the first method that raises
\* is the last one called, and its exception is what run() raises; close_db is
\* called exactly once, last, on every path, and the connection is closed when
\* run() returns if and only if connect_db had opened one.
C14_RunOrderAndClose ==
    /\ Len(TryCalls) <= Len(run_order)
    /\ \A i \in 1..Len(TryCalls) : TryCalls[i] = run_order[i]
    /\ run_log.raised # "" =>
          /\ TryCalls # <<>>
          /\ TryCalls[Len(TryCalls)] = run_log.raised
          /\ pc \in {"failed", "done"}
    /\ pc = "done" =>
          /\ run_log.calls = Append(TryCalls, "close_db")
          /\ run_log.raised = "" => TryCalls = run_order
          /\ conn # "open"
          /\ conn = "closed" <=> run_log.raised # "connect_db"
    /\ pc # "done" => run_log.calls = TryCalls
    /\ conn = "open" <=> pc \notin {"start", "done"} /\ run_log.raised # "connect_db"

\* run() has returned after load_data raised: no query ran, the connection is closed
C14_Witness ==
    /\ pc = "done"
    /\ run_log.raised = "load_data"
    /\ run_log.calls = <<"connect_db", "create_schema", "extract_data", "transform_data",
                         "load_data", "close_db">>
    /\ conn = "closed"

\* run() has returned after connect_db raised: there is no connection to close
C14_WitnessNoConnection ==
    /\ pc = "done"
    /\ run_log.raised = "connect_db"
    /\ run_log.calls = <<"connect_db", "close_db">>
    /\ conn = "None"

====
